---------------------------- MODULE Spec2Model ----------------------------
(***************************************************************************)
(* Model of the Go-Logger package (src/unnamed/part_000, package logger).  *)
(*                                                                         *)
(* Two specifications share this module:                                   *)
(*   Spec        the asynchronous dual-sink writer: bufwriter.Write, the   *)
(*               channel made by NewBufwriter and its worker goroutine;    *)
(*   LoggerSpec  the facade: GetLevel, NewService, SetLogger / GetLogger   *)
(*               and the leveled methods of standardLogger.                *)
(* Each specification leaves the other part's variables untouched.         *)
(***************************************************************************)
EXTENDS Integers, Sequences, FiniteSets, TLC

----------------------------------------------------------------------------
(* Bounds of the model.                                                    *)

MaxCap == 2        \* capacities n of make(bufwriter, n) explored: 0..MaxCap
MaxWrites == 3     \* Write calls issued, over all calling threads
MaxFail == 1       \* downstream writes (stdout or file) that fail
BufCap == 2        \* capacity of a caller's backing array
MaxServices == 2   \* NewService calls
MaxArgs == 2       \* length of the variadic argument list of a leveled call

Threads == {"t1", "t2"}               \* calling goroutines
BufVals == {<<1>>, <<2, 3>>}          \* encoded records callers write

----------------------------------------------------------------------------
(* State.                                                                  *)

VARIABLES
  \* --- asynchronous dual-sink writer ---
  cap,        \* n of make(bufwriter, n)
  heap,       \* per thread: the backing array of the buffer it encodes into
  queue,      \* the channel's buffer, oldest first
  tpc,        \* per calling thread: "idle" or "sending" (inside Write, at bw <- p)
  arg,        \* per thread: the slice p of its Write call (array and length)
  ret,        \* per thread: what its last completed Write returned
  nw,         \* per thread: Write calls issued so far
  hist,       \* per thread: observations of its last call (history variable)
  nacc,       \* buffers accepted by the channel so far (history variable)
  wpc,        \* worker: "recv", "stdout" (at os.Stdout.Write), "file" (at l.Write)
  cur,        \* worker: the p of the current loop iteration
  deqLog,     \* tags of the buffers the worker received, in order (history)
  stdoutLog,  \* writes made to os.Stdout, in order
  fileLog,    \* writes made to the lumberjack file, in order
  \* --- facade ---
  svcs,           \* the standardLogger values NewService returned, in order
  loggerPointer,  \* var loggerPointer *standardLogger (0 is nil)
  lastSet,        \* argument of the most recent SetLogger call (history)
  last            \* the most recent facade call and its outcome

bwVars == <<cap, heap, queue, tpc, arg, ret, nw, hist, nacc,
            wpc, cur, deqLog, stdoutLog, fileLog>>
lgVars == <<svcs, loggerPointer, lastSet, last>>
vars == <<bwVars, lgVars>>

----------------------------------------------------------------------------
(* Values.                                                                 *)

NoSlice == [ref |-> "none", len |-> 0]
NoBuf == [p |-> NoSlice, by |-> "none", seq |-> 0, snap |-> <<>>]
NoRet == <<-1, "none">>
NoHist == [full |-> FALSE, ndeq0 |-> 0, deqd |-> FALSE, failed |-> FALSE]

NilPtr == 0        \* the nil pointer; other pointers are positive
NeverSet == -1     \* lastSet before any SetLogger call
NoCall == [op |-> "none", recv |-> 0, outcome |-> "none", str |-> "",
           in |-> <<>>, args |-> <<>>, field |-> "", level |-> 0,
           result |-> NilPtr]

\* The bytes a slice shows now: the first len bytes of its backing array.
BytesOf(p) == SubSeq(heap[p.ref], 1, p.len)

\* The tag of a queued buffer: which call of which thread it came from.
Tag(e) == <<e.by, e.seq>>

\* How many downstream writes have failed so far.
RECURSIVE Fails(_)
Fails(log) == IF log = <<>> THEN 0
              ELSE (IF Head(log).ok THEN 0 ELSE 1) + Fails(Tail(log))
NumFailed == Fails(stdoutLog) + Fails(fileLog)
SomeWriteFailed == NumFailed > 0

\* The outcomes a downstream write can have.
Outcomes == IF NumFailed < MaxFail THEN {TRUE, FALSE} ELSE {TRUE}

RECURSIVE Sum(_, _)
Sum(f, S) == IF S = {} THEN 0
             ELSE LET x == CHOOSE y \in S : TRUE IN f[x] + Sum(f, S \ {x})

\* The facade's variables while the writer runs.
LgIdle ==
  svcs = <<>> /\ loggerPointer = NilPtr /\ lastSet = NeverSet /\ last = NoCall

----------------------------------------------------------------------------
(* NewBufwriter(n, logFile): the channel is made with capacity n and the   *)
(* worker goroutine is started at the top of its range loop.               *)

NewBufwriter(n) ==
  /\ cap = n
  /\ queue = <<>>
  /\ wpc = "recv"
  /\ cur = NoBuf
  /\ deqLog = <<>>
  /\ stdoutLog = <<>>
  /\ fileLog = <<>>

Init ==
  /\ \E n \in 0..MaxCap : NewBufwriter(n)
  /\ heap = [t \in Threads |-> [i \in 1..BufCap |-> 0]]
  /\ tpc = [t \in Threads |-> "idle"]
  /\ arg = [t \in Threads |-> NoSlice]
  /\ ret = [t \in Threads |-> NoRet]
  /\ nw = [t \in Threads |-> 0]
  /\ hist = [t \in Threads |-> NoHist]
  /\ nacc = 0
  /\ LgIdle

----------------------------------------------------------------------------
(* bufwriter.Write(p).                                                     *)

\* The backing array a after the caller has encoded record v into its front.
Fill(a, v) == [i \in 1..Len(a) |-> IF i <= Len(v) THEN v[i] ELSE a[i]]

\* A thread encodes record v into its buffer (the buffer of its earlier
\* records, whose Write calls have returned), calls Write(p) with p the
\* filled part, and reaches the send statement.
WriteCall(t, v) ==
  /\ tpc[t] = "idle"
  /\ Sum(nw, Threads) < MaxWrites
  /\ Len(v) <= BufCap
  /\ heap' = [heap EXCEPT ![t] = Fill(@, v)]
  /\ tpc' = [tpc EXCEPT ![t] = "sending"]
  /\ arg' = [arg EXCEPT ![t] = [ref |-> t, len |-> Len(v)]]
  /\ nw' = [nw EXCEPT ![t] = @ + 1]
  /\ ret' = [ret EXCEPT ![t] = NoRet]
  /\ hist' = [hist EXCEPT ![t] = [full |-> (nacc - Len(deqLog) = cap),
                                  ndeq0 |-> Len(deqLog), deqd |-> FALSE,
                                  failed |-> FALSE]]
  /\ UNCHANGED <<cap, queue, nacc, wpc, cur, deqLog, stdoutLog, fileLog, lgVars>>

\* What the channel holds for the send of thread t: the slice header p (the
\* backing array is shared, not copied); as history, the call it came from
\* and the bytes p held when Write was called.
Entry(t) == [p |-> arg[t], by |-> t, seq |-> nw[t], snap |-> BytesOf(arg[t])]

\* Mutant of WriteResult: Write reports a downstream failure to its caller.
WriteResultReportsFailure(t) ==
  IF SomeWriteFailed THEN <<0, "error">> ELSE <<arg[t].len, "nil">>

\* return len(p), nil
WriteResult(t) == <<arg[t].len, "nil">>

\* Mutant of CanSend: the send never waits for a free slot.
CanSendUnbounded == TRUE

\* When the buffered send bw <- p can proceed: the buffer has a free slot.
CanSend == Len(queue) < cap

\* bw <- p into the channel's buffer, then the return.
Write(t) ==
  /\ tpc[t] = "sending"
  /\ CanSend
  /\ queue' = Append(queue, Entry(t))
  /\ nacc' = nacc + 1
  /\ ret' = [ret EXCEPT ![t] = WriteResult(t)]
  /\ tpc' = [tpc EXCEPT ![t] = "idle"]
  /\ hist' = [hist EXCEPT ![t].ndeq0 = 0,
                          ![t].deqd = (Len(deqLog) > hist[t].ndeq0),
                          ![t].failed = SomeWriteFailed]
  /\ UNCHANGED <<cap, heap, arg, nw, wpc, cur, deqLog, stdoutLog, fileLog, lgVars>>

\* bw <- p handed directly to the worker waiting in its receive (the only
\* way a send completes on a channel of capacity 0), then the return.
WriteHandoff(t) ==
  /\ tpc[t] = "sending"
  /\ wpc = "recv"
  /\ queue = <<>>
  /\ cur' = Entry(t)
  /\ deqLog' = Append(deqLog, Tag(Entry(t)))
  /\ wpc' = "stdout"
  /\ nacc' = nacc + 1
  /\ ret' = [ret EXCEPT ![t] = WriteResult(t)]
  /\ tpc' = [tpc EXCEPT ![t] = "idle"]
  /\ hist' = [hist EXCEPT ![t].ndeq0 = 0,
                          ![t].deqd = TRUE,
                          ![t].failed = SomeWriteFailed]
  /\ UNCHANGED <<cap, heap, queue, arg, nw, stdoutLog, fileLog, lgVars>>

----------------------------------------------------------------------------
(* The worker goroutine of NewBufwriter: for p := range c { ... }.         *)

\* Mutant of RecvIndex: the receive takes the newest queued buffer.
RecvIndexNewest == Len(queue)

\* Which queued buffer the receive takes: the oldest.
RecvIndex == 1

\* p := <-c
WorkerRecv ==
  /\ wpc = "recv"
  /\ queue # <<>>
  /\ cur' = queue[RecvIndex]
  /\ queue' = [i \in 1..(Len(queue) - 1) |->
                 IF i < RecvIndex THEN queue[i] ELSE queue[i + 1]]
  /\ deqLog' = Append(deqLog, Tag(queue[RecvIndex]))
  /\ wpc' = "stdout"
  /\ UNCHANGED <<cap, heap, tpc, arg, ret, nw, hist, nacc, stdoutLog, fileLog,
                 lgVars>>

\* One write as a sink records it: the bytes read through the slice when the
\* write was made, and whether the write succeeded.
Written(ok) ==
  [by |-> cur.by, seq |-> cur.seq, bytes |-> BytesOf(cur.p), snap |-> cur.snap,
   ok |-> ok]

\* Mutant of AfterStdout: a failed write to stdout ends the iteration.
AfterStdoutSkipsOnError(ok) == IF ok THEN "file" ELSE "recv"

\* Where the worker goes after os.Stdout.Write(p): its result is dropped.
AfterStdout(ok) == "file"

\* os.Stdout.Write(p)
WorkerStdout(ok) ==
  /\ wpc = "stdout"
  /\ stdoutLog' = Append(stdoutLog, Written(ok))
  /\ wpc' = AfterStdout(ok)
  /\ cur' = IF AfterStdout(ok) = "file" THEN cur ELSE NoBuf
  /\ UNCHANGED <<cap, heap, queue, tpc, arg, ret, nw, hist, nacc, deqLog,
                 fileLog, lgVars>>

\* l.Write(p), then back to the top of the loop: its result is dropped.
WorkerFile(ok) ==
  /\ wpc = "file"
  /\ fileLog' = Append(fileLog, Written(ok))
  /\ wpc' = "recv"
  /\ cur' = NoBuf
  /\ UNCHANGED <<cap, heap, queue, tpc, arg, ret, nw, hist, nacc, deqLog,
                 stdoutLog, lgVars>>

Next ==
  \/ \E t \in Threads, v \in BufVals : WriteCall(t, v)
  \/ \E t \in Threads : Write(t)
  \/ \E t \in Threads : WriteHandoff(t)
  \/ WorkerRecv
  \/ \E ok \in Outcomes : WorkerStdout(ok)
  \/ \E ok \in Outcomes : WorkerFile(ok)

Spec == Init /\ [][Next]_vars

----------------------------------------------------------------------------
(* The facade: levels.                                                     *)

INFO == 0
WARN == 1
ERROR == 2
DPANIC == 3
PANIC == 4
FATAL == 5
DEBUG == -1

\* Level strings a configuration may carry: the seven names, and strings
\* that are none of them (empty, lower case, mixed case, another word).
LevelStrings ==
  {"INFO", "WARN", "ERROR", "DPANIC", "PANIC", "FATAL", "DEBUG",
   "", "info", "Warn", "TRACE"}

\* Mutant of GetLevel: "DPANIC" resolves to the DPANIC level.
GetLevelDPanicOwnLevel(l) ==
  CASE l = "INFO" -> INFO
    [] l = "WARN" -> WARN
    [] l = "ERROR" -> ERROR
    [] l = "DPANIC" -> DPANIC
    [] l = "PANIC" -> PANIC
    [] l = "FATAL" -> FATAL
    [] l = "DEBUG" -> DEBUG
    [] OTHER -> INFO

\* func GetLevel(l string) zapcore.Level
GetLevel(l) ==
  CASE l = "INFO" -> INFO
    [] l = "WARN" -> WARN
    [] l = "ERROR" -> ERROR
    [] l = "DPANIC" -> PANIC
    [] l = "PANIC" -> PANIC
    [] l = "FATAL" -> FATAL
    [] l = "DEBUG" -> DEBUG
    [] OTHER -> INFO

----------------------------------------------------------------------------
(* The facade: NewService, SetLogger, GetLogger.                           *)

\* File names, as sequences of characters.
FileNames == {<<>>, <<" ">>, <<"f">>, <<" ", "f", " ">>}

\* strings.TrimSpace: leading and trailing spaces removed.
RECURSIVE TrimLeft(_)
TrimLeft(s) == IF s # <<>> /\ Head(s) = " " THEN TrimLeft(Tail(s)) ELSE s
RECURSIVE TrimRight(_)
TrimRight(s) ==
  IF s # <<>> /\ s[Len(s)] = " " THEN TrimRight(SubSeq(s, 1, Len(s) - 1)) ELSE s
TrimSpace(s) == TrimRight(TrimLeft(s))

\* The configurations NewService is given (the rotation numbers and the
\* compression flag only reach the lumberjack.Logger and are left out).
Configs == [LogFileName : FileNames, LoggingLevel : LevelStrings]

\* cfg.OutputPaths: "stdout", and the file when a file name is configured.
OutputPaths(c) ==
  IF TrimSpace(c.LogFileName) # <<>> THEN <<"stdout", c.LogFileName>>
  ELSE <<"stdout">>

\* Whether cfg.Build() can succeed, can fail: opening stdout does not fail,
\* opening a configured file may.
BuildOutcomes(c) == IF Len(OutputPaths(c)) > 1 THEN {TRUE, FALSE} ELSE {TRUE}

\* The standardLogger NewService returns: logger is the sugared logger of
\* the built engine (1) or of zap.NewExample() (2); log is the engine that
\* cfg.Build() returned, nil when it failed.
BuiltSugar == 1
ExampleSugar == 2
BuiltZap == 1
StandardLogger(ok) ==
  [logger |-> IF ok THEN BuiltSugar ELSE ExampleSugar,
   log |-> IF ok THEN BuiltZap ELSE NilPtr]

\* Mutant of PointerAfterNewService: NewService installs what it returns.
PointerAfterNewServiceInstalls(l) == l

\* loggerPointer once NewService has returned pointer l: no statement of
\* NewService assigns it.
PointerAfterNewService(l) == loggerPointer

\* func NewService(config interface{}) *standardLogger
NewService(c, ok) ==
  /\ Len(svcs) < MaxServices
  /\ ok \in BuildOutcomes(c)
  /\ svcs' = Append(svcs, StandardLogger(ok))
  /\ loggerPointer' = PointerAfterNewService(Len(svcs) + 1)
  /\ last' = [NoCall EXCEPT !.op = "NewService", !.outcome = "ok",
                            !.str = c.LoggingLevel,
                            !.level = GetLevel(c.LoggingLevel),
                            !.result = Len(svcs) + 1]
  /\ UNCHANGED <<lastSet, bwVars>>

\* GetLevel called on its own.
GetLevelCall(l) ==
  /\ last' = [NoCall EXCEPT !.op = "GetLevel", !.outcome = "ok", !.str = l,
                            !.level = GetLevel(l)]
  /\ UNCHANGED <<svcs, loggerPointer, lastSet, bwVars>>

\* func SetLogger(l *standardLogger)
SetLogger(l) ==
  /\ l \in 0..Len(svcs)
  /\ loggerPointer' = l
  /\ lastSet' = l
  /\ last' = [NoCall EXCEPT !.op = "SetLogger", !.outcome = "ok", !.recv = l]
  /\ UNCHANGED <<svcs, bwVars>>

\* func GetLogger() *standardLogger
GetLogger ==
  /\ last' = [NoCall EXCEPT !.op = "GetLogger", !.outcome = "ok",
                            !.result = loggerPointer]
  /\ UNCHANGED <<svcs, loggerPointer, lastSet, bwVars>>

----------------------------------------------------------------------------
(* The facade: the leveled methods of standardLogger.                      *)

Str(x) == [kind |-> "string", v |-> x]
Err(m) == [kind |-> "error", v |-> m]
Other(x) == [kind |-> "int", v |-> x]

\* Values passed as variadic arguments: strings, a value of another type,
\* and error values with their message text.
ArgVals == {Str("msg"), Other("7"), Err("boom"), Err("")}
ArgLists == UNION {[1..n -> ArgVals] : n \in 0..MaxArgs}

\* args[len(args)-1].(error)
IsError(x) == x.kind = "error"

\* Mutant of ErrorPositional: the error value is kept in the list.
ErrorPositionalKeepsError(args) ==
  args \o <<Str(" "), Str(args[Len(args)].v)>>

\* args = append(args[:len(args)-1], " ", errString)
ErrorPositional(args) ==
  SubSeq(args, 1, Len(args) - 1) \o <<Str(" "), Str(args[Len(args)].v)>>

\* What Error(args...) does: the index expression args[len(args)-1] panics
\* on the empty list; otherwise the positional arguments handed to the
\* engine and the response_message field of the record.
ErrorOutcome(args) ==
  IF Len(args) = 0
    THEN [outcome |-> "panic", args |-> <<>>, field |-> ""]
  ELSE IF IsError(args[Len(args)])
    THEN [outcome |-> "ok", args |-> ErrorPositional(args),
          field |-> args[Len(args)].v]
  ELSE [outcome |-> "ok", args |-> args, field |-> "unknown"]

\* func (s *standardLogger) Error(args ...interface{})
Error(s, args) ==
  /\ s \in 1..Len(svcs)
  /\ last' = [NoCall EXCEPT !.op = "Error", !.recv = s, !.in = args,
                            !.outcome = ErrorOutcome(args).outcome,
                            !.args = ErrorOutcome(args).args,
                            !.field = ErrorOutcome(args).field]
  /\ UNCHANGED <<svcs, loggerPointer, lastSet, bwVars>>

\* The methods that delegate to s.logger, the sugared logger.
SugarOps == {"Errorf", "Infof", "Info", "Warnf", "Warn", "Debugf", "Debug"}

\* The methods that delegate to s.log, the engine.
ZapOps == {"Errorz", "Infoz", "Warnz", "Debugz"}

\* Argument lists given to the delegating methods, which pass them on as
\* they are: none, and one ending in an error value.
SugarArgs == {<<>>, <<Str("msg"), Err("boom")>>}

\* s.logger.Xxx(args...): s.logger is never nil.
Sugared(s, op, args) ==
  /\ s \in 1..Len(svcs)
  /\ last' = [NoCall EXCEPT !.op = op, !.recv = s, !.in = args,
                            !.args = args, !.outcome = "ok"]
  /\ UNCHANGED <<svcs, loggerPointer, lastSet, bwVars>>

\* s.log.Xxx(msg, fields...): a method of *zap.Logger reads the fields of
\* its receiver, so it panics on a nil s.log.
Structured(s, op) ==
  /\ s \in 1..Len(svcs)
  /\ last' = [NoCall EXCEPT !.op = op, !.recv = s,
                            !.outcome = IF svcs[s].log = NilPtr THEN "panic"
                                        ELSE "ok"]
  /\ UNCHANGED <<svcs, loggerPointer, lastSet, bwVars>>

\* func (s *standardLogger) GetZapLogger() *zap.Logger
GetZapLogger(s) ==
  /\ s \in 1..Len(svcs)
  /\ last' = [NoCall EXCEPT !.op = "GetZapLogger", !.recv = s,
                            !.outcome = "ok", !.result = svcs[s].log]
  /\ UNCHANGED <<svcs, loggerPointer, lastSet, bwVars>>

\* The writer's variables while the facade runs: no writer is in use.
BwIdle ==
  /\ NewBufwriter(0)
  /\ heap = [t \in Threads |-> [i \in 1..BufCap |-> 0]]
  /\ tpc = [t \in Threads |-> "idle"]
  /\ arg = [t \in Threads |-> NoSlice]
  /\ ret = [t \in Threads |-> NoRet]
  /\ nw = [t \in Threads |-> 0]
  /\ hist = [t \in Threads |-> NoHist]
  /\ nacc = 0

LoggerInit == LgIdle /\ BwIdle

LoggerNext ==
  \/ \E c \in Configs, ok \in BOOLEAN : NewService(c, ok)
  \/ \E l \in LevelStrings : GetLevelCall(l)
  \/ \E l \in 0..MaxServices : SetLogger(l)
  \/ GetLogger
  \/ \E s \in 1..MaxServices, args \in ArgLists : Error(s, args)
  \/ \E s \in 1..MaxServices, op \in SugarOps, args \in SugarArgs : Sugared(s, op, args)
  \/ \E s \in 1..MaxServices, op \in ZapOps : Structured(s, op)
  \/ \E s \in 1..MaxServices : GetZapLogger(s)

LoggerSpec == LoggerInit /\ [][LoggerNext]_vars

----------------------------------------------------------------------------
(* Claims about the asynchronous dual-sink writer, checked under Spec.     *)

\* The tags of the writes a sink received, in order.
Tags(log) == [i \in 1..Len(log) |-> <<log[i].by, log[i].seq>>]

\* s is a prefix of u.
IsPrefix(s, u) == Len(s) <= Len(u) /\ SubSeq(u, 1, Len(s)) = s

\* The writes of thread t among the writes a sink received, in order.
ByThread(log, t) == LET Mine(e) == e.by = t IN SelectSeq(log, Mine)

\* C1: whenever a Write call returns, whatever the outcomes of the worker's
\* writes so far, it returns (len(buf), nil), it has not modified any
\* buffer, and the slice it was given is the newest element of the channel
\* (at the tail of the queue or, when handed over directly, in the worker's
\* hands).
C1_WriteEnqueuesAndReportsLen ==
  [][\A t \in Threads :
       (tpc[t] = "sending" /\ tpc'[t] = "idle") =>
         /\ ret'[t] = <<Len(BytesOf(arg[t])), "nil">>
         /\ heap' = heap
         /\ \/ /\ Len(queue') = Len(queue) + 1
               /\ SubSeq(queue', 1, Len(queue)) = queue
               /\ queue'[Len(queue')].p = arg[t]
               /\ queue'[Len(queue')].snap = BytesOf(arg[t])
            \/ /\ queue' = queue
               /\ cur'.p = arg[t]
               /\ cur'.snap = BytesOf(arg[t])]_vars

\* C1 witness: a Write of a two-byte buffer has returned (2, nil) after a
\* downstream write had failed.
C1_Witness ==
  \E t \in Threads :
    /\ tpc[t] = "idle"
    /\ hist[t].failed
    /\ arg[t].len = 2
    /\ ret[t] = <<2, "nil">>

\* C2: for every calling thread, its buffers reach standard output in the
\* order of its Write calls: the k-th of its buffers written to stdout is
\* the buffer of its k-th call, whatever other threads write.
C2_PerProducerFifo ==
  \A t \in Threads :
    LET mine == ByThread(stdoutLog, t)
    IN \A i \in 1..Len(mine) : mine[i].seq = i

\* C2 witness: stdout has received two buffers of one thread with a buffer
\* of the other thread written between them.
C2_Witness ==
  /\ Len(stdoutLog) = 3
  /\ stdoutLog[1].by = "t1" /\ stdoutLog[1].seq = 1
  /\ stdoutLog[2].by = "t2"
  /\ stdoutLog[3].by = "t1" /\ stdoutLog[3].seq = 2

\* C3: the buffers accepted and not yet dequeued never number more than the
\* capacity n; a Write issued while they number n has returned only after
\* the worker dequeued a buffer; with n = 1 and nothing dequeued at most one
\* Write has completed, and once it has, no pending Write can proceed.
C3_CapacityAndBlocking ==
  /\ nacc - Len(deqLog) <= cap
  /\ \A t \in Threads :
       (tpc[t] = "idle" /\ ret[t] # NoRet /\ hist[t].full) => hist[t].deqd
  /\ (cap = 1 /\ deqLog = <<>>) => nacc <= 1
  /\ (cap = 1 /\ deqLog = <<>> /\ nacc = 1) =>
       \A t \in Threads :
         tpc[t] = "sending" => ~ENABLED (Write(t) \/ WriteHandoff(t))

\* C3 witness: with capacity 1, a Write issued while one buffer was pending
\* has returned, after the worker dequeued.
C3_Witness ==
  /\ cap = 1
  /\ \E t \in Threads :
       tpc[t] = "idle" /\ ret[t] # NoRet /\ hist[t].full /\ hist[t].deqd

\* C4: the worker writes every buffer it dequeues once to stdout and then
\* once to the file, before it dequeues the next, whether or not a write
\* fails: both sinks have received exactly the dequeued buffers in dequeue
\* order, the file never ahead of stdout, and the worker is back at its
\* receive only when both writes of the current buffer are done.
C4_WorkerWritesBothInOrder ==
  /\ IsPrefix(Tags(stdoutLog), deqLog)
  /\ IsPrefix(Tags(fileLog), Tags(stdoutLog))
  /\ wpc \in {"recv", "stdout", "file"}
  /\ wpc = "recv" =>
       Len(stdoutLog) = Len(deqLog) /\ Len(fileLog) = Len(deqLog)
  /\ wpc = "stdout" =>
       Len(stdoutLog) = Len(deqLog) - 1 /\ Len(fileLog) = Len(deqLog) - 1
  /\ wpc = "file" =>
       Len(stdoutLog) = Len(deqLog) /\ Len(fileLog) = Len(deqLog) - 1

\* C4 witness: the write of the first buffer to stdout failed, and the file
\* has since received that buffer and the next one.
C4_Witness ==
  /\ Len(stdoutLog) >= 2
  /\ ~stdoutLog[1].ok
  /\ Len(fileLog) >= 2

\* C10 (as claimed): the bytes the worker writes to stdout and to the file
\* for a record are the bytes the buffer held when Write was called.
C10_WrittenBytesAreBytesAtWrite ==
  /\ \A i \in 1..Len(stdoutLog) : stdoutLog[i].bytes = stdoutLog[i].snap
  /\ \A i \in 1..Len(fileLog) : fileLog[i].bytes = fileLog[i].snap

----------------------------------------------------------------------------
(* Claims about the facade, checked under LoggerSpec.                      *)

C6_ErrorWithErrorValue ==
  (last.op = "Error" /\ last.in # <<>> /\ last.in[Len(last.in)].kind = "error") =>
    LET k == Len(last.in) - 1
        m == last.in[k + 1].v
    IN /\ last.outcome = "ok"
       /\ last.field = m
       /\ Len(last.args) = k + 2
       /\ \A i \in 1..k : last.args[i] = last.in[i]
       /\ last.args[k + 1] = [kind |-> "string", v |-> " "]
       /\ last.args[k + 2] = [kind |-> "string", v |-> m]

\* C6 witness: Error("msg", errors.New("boom")) has been called and its
\* record carries response_message = "boom".
C6_Witness ==
  /\ last.op = "Error"
  /\ last.in = <<[kind |-> "string", v |-> "msg"], [kind |-> "error", v |-> "boom"]>>
  /\ last.field = "boom"

\* C7 (as claimed): a call of Error whose argument list does not end in an
\* error value, the empty list included, completes without failing, hands
\* on the arguments unchanged and emits response_message = "unknown".
C7_ErrorWithoutErrorValue ==
  (last.op = "Error" /\ (last.in = <<>> \/ last.in[Len(last.in)].kind # "error")) =>
    /\ last.outcome = "ok"
    /\ last.args = last.in
    /\ last.field = "unknown"

\* C8 (as claimed): a logger returned by a NewService whose engine could not
\* be built can be used without failing: its formatted, variadic and
\* structured-field methods complete (Error being given at least one
\* argument), and GetZapLogger returns a usable engine.
C8_FallbackLoggerUsable ==
  (last.recv \in 1..Len(svcs) /\ svcs[last.recv].logger = ExampleSugar) =>
    /\ (last.op \in SugarOps \cup ZapOps) => last.outcome = "ok"
    /\ (last.op = "Error" /\ last.in # <<>>) => last.outcome = "ok"
    /\ last.op = "GetZapLogger" => last.result # NilPtr

\* The reference mapping of level strings.
RefLevel(l) ==
  LET named == [INFO |-> 0, WARN |-> 1, ERROR |-> 2, PANIC |-> 4,
                FATAL |-> 5, DEBUG |-> -1]
  IN IF l \in DOMAIN named THEN named[l]
     ELSE IF l = "DPANIC" THEN named["PANIC"]
     ELSE named["INFO"]

\* C9: the level GetLevel resolves for a string, called on its own or by
\* NewService for the configured level, is the reference mapping's: the
\* six names to their own level, DPANIC to PANIC, anything else to INFO.
C9_GetLevelIsReference ==
  last.op \in {"GetLevel", "NewService"} => last.level = RefLevel(last.str)

\* C9 witness: GetLevel("DPANIC") has returned the PANIC level.
C9_Witness ==
  last.op = "GetLevel" /\ last.str = "DPANIC" /\ last.level = PANIC

====
